---- MODULE Spec2Model ----
(***************************************************************************)
(* A model of the QWeather MCP service: the JWT-authenticated server       *)
(* (weather_mcp.py) and the static-key server (weather_server.py).         *)
(*                                                                         *)
(* Strings the code only copies are opaque values; a location input is a   *)
(* sequence of characters so that str.isdigit() is computed; a returned    *)
(* text is a record [kind, lines] whose lines are the lines the code       *)
(* joins, and a failure text carries the pieces of its message.            *)
(***************************************************************************)
EXTENDS Integers, Sequences, FiniteSets, TLC

(***************************************************************************)
(* Bounds of the model.                                                    *)
(***************************************************************************)
MaxTicks == 4
MaxCalls == 3
MaxLocLen == 1
MaxDaily == 8
MaxAlerts == 4
MaxAqDays == 3

(***************************************************************************)
(* Program constants.                                                      *)
(***************************************************************************)
TOKEN_EXPIRY == 82800
REFRESH_MARGIN == 300
IAT_SKEW == 30
DESC_LIMIT == 100
DEFAULT_DAYS == 7

VARIABLES
    \* ---- JWTAuthManager (weather_mcp.py) and the clock
    token,        \* self._token: NoToken or the signed token
    expiry,       \* self._expiry
    now,          \* int(time.time())
    ticks,        \* number of clock advances so far
    calls,        \* number of get_token calls so far
    signings,     \* number of jwt.encode calls so far
    returned,     \* outcome of the last get_token call
    \* ---- process-wide configuration and singletons
    program,      \* which server module runs: "weather_mcp" or "weather_server"
    env,          \* the environment variables read at import
    jwt_manager,  \* weather_mcp.jwt_manager is not None
    client,       \* the module's client is not None
    \* ---- one tool invocation
    pc,           \* "idle", "resolving", "fetching", "gathering", "done"
    call,         \* the tool and its arguments
    days,         \* the local variable days of get_weather_forecast
    lookup,       \* the response the resolver got from the city lookup
    city,         \* what the resolver returned
    tasks,        \* the awaitables handed to asyncio.gather, in order
    requests,     \* the HTTP requests issued by this invocation, in order
    tokenCalls,   \* get_token calls made by this invocation
    ret,          \* what the tool call gave back to the framework
    \* ---- the process
    proc,         \* "imported", "serving" (mcp.run() entered) or "exited"
    exitCode,     \* the exit status once exited
    stderr        \* what main wrote to the error stream

jwtVars == <<token, expiry, now, ticks, calls, signings, returned>>
globalVars == <<program, env, jwt_manager, client>>
toolVars == <<pc, call, days, lookup, city, tasks, requests, tokenCalls, ret>>
procVars == <<proc, exitCode, stderr>>
vars == <<jwtVars, globalVars, toolVars, procVars>>

(***************************************************************************)
(* JWTAuthManager                                                          *)
(***************************************************************************)
\* self._token = None
NoToken == [none |-> TRUE, iat |-> 0, exp |-> 0]

\* jwt.encode(payload, key, "EdDSA"): the token is determined by its payload
Encode(iat, exp) == [none |-> FALSE, iat |-> iat, exp |-> exp]

\* "not self._token or now >= self._expiry - REFRESH_MARGIN"
NeedsRefreshLate(tok, exp, t) == tok.none \/ t > exp - REFRESH_MARGIN
NeedsRefresh(tok, exp, t) == tok.none \/ t >= exp - REFRESH_MARGIN

\* _generate_token(now): self._expiry is assigned before jwt.encode is called,
\* so it is assigned whether or not the signing raises.
generate_token(t, signOk) ==
    [expiry |-> t + TOKEN_EXPIRY,
     raised |-> ~signOk,
     tok    |-> Encode(t - IAT_SKEW, t + TOKEN_EXPIRY)]

\* get_token(): the manager's state after the call and what the call gives.
\* The method has no await: it runs atomically with respect to other tasks.
get_token(tok, exp, t, signOk) ==
    IF NeedsRefresh(tok, exp, t)
    THEN LET g == generate_token(t, signOk) IN
         [token   |-> IF g.raised THEN tok ELSE g.tok,
          expiry  |-> g.expiry,
          signed  |-> 1,
          raised  |-> g.raised,
          result  |-> IF g.raised THEN NoToken ELSE g.tok]
    ELSE [token |-> tok, expiry |-> exp, signed |-> 0, raised |-> FALSE,
          result |-> tok]

NoCall == [raised |-> FALSE, result |-> NoToken]

(***************************************************************************)
(* Strings.  A string is a sequence of symbols: a character of a location  *)
(* input, or an opaque piece of provider text.  "" is <<>>, f"{a}{b}" is   *)
(* a \o b, and "if s" is Len(s) > 0.                                       *)
(***************************************************************************)
S(x) == <<x>>
Empty == <<>>
Digits == {"0", "1", "2", "3", "4", "5", "6", "7", "8", "9"}
Alphabet == {"1", "b"}

\* the location arguments a caller may pass
Locations == UNION {[1..n -> Alphabet] : n \in 0..MaxLocLen}

\* str.isdigit(): non-empty and every character a digit
isdigit(s) == Len(s) > 0 /\ \A i \in 1..Len(s) : s[i] \in Digits

\* float(s) succeeds, and f"{float(s):.2f}"
FloatText == {S("39.9042"), S("116.4074")}
IsFloat(s) == s \in FloatText
Fmt2(s) == IF s = S("39.9042") THEN S("39.90") ELSE S("116.41")

(***************************************************************************)
(* The provider.  A response is what client.get gives: it times out, the   *)
(* connection fails, raise_for_status raises, the body is not JSON, or it  *)
(* is a JSON body.                                                         *)
(***************************************************************************)
Failures(empty) ==
    {[kind |-> k, http |-> h, body |-> empty] :
        k \in {"timeout", "network", "badjson"}, h \in {200}}
    \cup {[kind |-> "status", http |-> 500, body |-> empty]}
Json(b) == [kind |-> "json", http |-> 200, body |-> b]

\* ---- /geo/v2/city/lookup
Beijing == [id |-> S("101010100"), name |-> S("Beijing"), adm1 |-> S("Beijing"),
            lat |-> S("39.9042"), lon |-> S("116.4074")]
Haidian == [id |-> S("101010200"), name |-> S("Haidian"), adm1 |-> S("Beijing"),
            lat |-> S("39.9042"), lon |-> S("116.4074")]
NoCoords == [id |-> S("101010300"), name |-> S("Chaoyang"), adm1 |-> Empty,
             lat |-> Empty, lon |-> S("116.4074")]
NoLon == [id |-> S("101010500"), name |-> S("Shunyi"), adm1 |-> S("Beijing"),
          lat |-> S("39.9042"), lon |-> Empty]
BadCoords == [id |-> S("101010400"), name |-> S("Tongzhou"), adm1 |-> S("Beijing"),
              lat |-> S("north"), lon |-> S("116.4074")]
ErrorCodes == {"401", "402", "404", "204"}
LookupBody(code, has, list) == [code |-> code, hasLocation |-> has, location |-> list]
LookupResponses ==
    Failures(LookupBody("", FALSE, <<>>))
    \cup {Json(LookupBody(c, FALSE, <<>>)) : c \in ErrorCodes \cup {"200"}}
    \cup {Json(LookupBody("200", TRUE, l)) :
            l \in {<<>>, <<Beijing>>, <<Haidian, Beijing>>, <<NoCoords>>, <<NoLon>>,
                  <<BadCoords>>}}

\* ---- /v7/weather/now
Now1 == [obsTime |-> S("2024-01-01T12:00"), temp |-> S("20"), feelsLike |-> S("19"),
         text |-> S("Sunny"), windDir |-> S("N"), windScale |-> S("3"),
         humidity |-> S("40"), precip |-> S("0.0"), vis |-> S("10"),
         pressure |-> S("1013"), valid |-> TRUE]
Now2 == [Now1 EXCEPT !.pressure = Empty]
\* a "now" object with a field that is not a string: CurrentWeather(...) raises
Now3 == [Now1 EXCEPT !.valid = FALSE]
NowBody(code, has, n) == [code |-> code, hasNow |-> has, now |-> n]
NowResponses ==
    Failures(NowBody("", FALSE, Now1))
    \cup {Json(NowBody(c, FALSE, Now1)) : c \in ErrorCodes \cup {"200"}}
    \cup {Json(NowBody("200", TRUE, n)) : n \in {Now1, Now2, Now3}}

\* ---- /v7/weather/{days}d
Day(i) == [fxDate |-> S("2024-01-0" \o ToString(i)),
           tempMax |-> S("9"), tempMin |-> S("1"),
           textDay |-> S("Sunny"), textNight |-> S("Clear"),
           windDirDay |-> S("N"), windScaleDay |-> S("3"), humidity |-> S("40"),
           precip |-> IF i % 2 = 0 THEN S("1.5") ELSE S("0.0"),
           uvIndex |-> IF i = 1 THEN Empty ELSE S(ToString(i))]
DailyLens == {0, 2, 4, MaxDaily}
DailyBody(code, has, n) == [code |-> code, hasDaily |-> has, daily |-> [i \in 1..n |-> Day(i)]]
\* entries whose uvIndex or precip is no number, or an empty precip
OddDay(u, p) == [Day(2) EXCEPT !.uvIndex = u, !.precip = p]
OddDays == {OddDay(S("high"), S("1.5")), OddDay(S("3"), S("trace")),
            OddDay(S("3"), Empty)}
DailyResponses ==
    Failures(DailyBody("", FALSE, 0))
    \cup {Json(DailyBody(c, FALSE, 0)) : c \in ErrorCodes \cup {"200"}}
    \cup {Json(DailyBody("200", TRUE, n)) : n \in DailyLens}
    \cup {Json([code |-> "200", hasDaily |-> TRUE, daily |-> <<Day(1), d>>]) :
            d \in OddDays}

\* ---- /weatheralert/v1/current/{lat}/{lon}
\* the first alert is the least severe and has a description longer than the
\* limit of the report
Alert(i) == [headline |-> S("headline" \o ToString(i)), eventType |-> S("Gale"),
             severity |-> IF i = 1 THEN S("Minor") ELSE S("Severe"),
             description |-> IF i = 1 THEN [k \in 1..(DESC_LIMIT + 5) |-> "x"]
                             ELSE S("description" \o ToString(i))]
AlertBody(zero, n) == [zeroResult |-> zero, alerts |-> [i \in 1..n |-> Alert(i)]]
AlertResponses ==
    Failures(AlertBody(FALSE, 0))
    \cup {Json(AlertBody(z, n)) : z \in BOOLEAN, n \in {0, MaxAlerts}}

\* ---- /airquality/v1/current/{lat}/{lon}
Aqi1 == [aqi |-> S("42"), category |-> S("Good"), primary |-> S("PM2.5"),
         pm25 |-> S("10 ug/m3"), pm10 |-> S("20 ug/m3"),
         effect |-> S("none"), advice |-> Empty]
AirBody(idx) == [indexes |-> idx]
AirResponses ==
    Failures(AirBody(<<>>)) \cup {Json(AirBody(i)) : i \in {<<>>, <<Aqi1>>}}

\* ---- /airquality/v1/daily/{lat}/{lon}
AqDay(i) == [indexes |-> IF i = 2 THEN <<>>
                         ELSE <<[aqiDisplay |-> S("aqi" \o ToString(i)),
                                 category |-> S("Good")]>>]
AirDailyBody(n) == [days |-> [i \in 1..n |-> AqDay(i)]]
AirDailyResponses ==
    Failures(AirDailyBody(0)) \cup {Json(AirDailyBody(n)) : n \in {0, MaxAqDays}}

\* ---- /v7/indices/{1d|3d}
Index(nm, d) == [name |-> S(nm), category |-> S("cat" \o ToString(d)),
                 text |-> IF d = 2 THEN Empty ELSE S("text" \o ToString(d))]
IndexLists == {<<>>, <<Index("sport", 1), Index("uv", 1)>>,
               <<Index("sport", 1), Index("uv", 1), Index("sport", 2)>>}
IndexBody(code, list) == [code |-> code, daily |-> list]
IndexResponses ==
    Failures(IndexBody("", <<>>))
    \cup {Json(IndexBody("404", <<>>))}
    \cup {Json(IndexBody("200", l)) : l \in IndexLists}

(***************************************************************************)
(* Error messages, as the pieces the code formats them from.               *)
(***************************************************************************)
MsgJwtUninit == S("JWT manager not initialised")
MsgNoHost == S("QWEATHER_API_HOST not configured")
MsgNoKey == S("QWEATHER_API_KEY not configured")
MsgTimeout == S("request timed out")
MsgHttp(status) == <<"HTTP error: ", ToString(status)>>
MsgWrapped(m) == <<"request failed: ">> \o m
MsgNotFound(loc) == <<"city not found: ">> \o loc
MsgIndexError == S("list index out of range")
MsgValueError == S("invalid literal")
MsgValidation == S("validation error")
MsgCurrentFailed == "get weather failed: "
MsgForecastFailed == "get forecast failed: "

\* the message chosen by the envelope's code (the 401 text names the credential
\* of the module: the JWT token or the API key)
CodeMessage_generic(code, prog) == <<"API error: status code ", code>>
CodeMessage(code, prog) ==
    IF code = "401"
    THEN S(IF prog = "weather_mcp" THEN "JWT token invalid or expired"
                                   ELSE "API key invalid or expired")
    ELSE IF code = "402" THEN S("API quota exhausted")
    ELSE IF code = "404" THEN S("resource does not exist")
    ELSE <<"API error: status code ", code>>

\* _make_request from the response on: raise_for_status, json(), the envelope.
\* The exception raised for a non-200 code is raised inside the try and is
\* re-wrapped by the last except clause.
make_request_finish(resp, prog) ==
    IF resp.kind = "timeout" THEN [exc |-> TRUE, msg |-> MsgTimeout, data |-> resp.body]
    ELSE IF resp.kind = "status"
    THEN [exc |-> TRUE, msg |-> MsgHttp(resp.http), data |-> resp.body]
    ELSE IF resp.kind = "network"
    THEN [exc |-> TRUE, msg |-> MsgWrapped(S("connection failed")), data |-> resp.body]
    ELSE IF resp.kind = "badjson"
    THEN [exc |-> TRUE, msg |-> MsgWrapped(S("invalid JSON")), data |-> resp.body]
    ELSE IF resp.body.code # "200"
    THEN [exc |-> TRUE, msg |-> MsgWrapped(CodeMessage(resp.body.code, prog)),
          data |-> resp.body]
    ELSE [exc |-> FALSE, msg |-> Empty, data |-> resp.body]

\* an HTTP request as the provider sees it
Req(ep, d, a, b, auth) == [ep |-> ep, d |-> d, a |-> a, b |-> b, auth |-> auth]

\* the process-wide state a coroutine reads and writes while it runs
Globals == [client |-> client, token |-> token, expiry |-> expiry,
            tokenCalls |-> tokenCalls, requests |-> requests]

\* weather_mcp._make_request up to its await: the two checks made outside the
\* try, then get_token and client.get inside it.
mcp_make_request_start_twice(g, ep, d, a, signOk) ==
    IF ~jwt_manager THEN [g |-> g, exc |-> TRUE, msg |-> MsgJwtUninit]
    ELSE IF ~g.client /\ env.API_HOST = ""
    THEN [g |-> g, exc |-> TRUE, msg |-> MsgNoHost]
    ELSE LET t == get_token(g.token, g.expiry, now, signOk)
             g1 == [g EXCEPT !.client = TRUE, !.token = t.token,
                             !.expiry = t.expiry, !.tokenCalls = @ + 1]
             r == Req(ep, d, a, Empty, t.result)
         IN IF t.raised
            THEN [g |-> g1, exc |-> TRUE, msg |-> MsgWrapped(S("signing failed"))]
            ELSE [g |-> [g1 EXCEPT !.requests = Append(Append(@, r), r)],
                  exc |-> FALSE, msg |-> Empty]
mcp_make_request_start(g, ep, d, a, signOk) ==
    IF ~jwt_manager THEN [g |-> g, exc |-> TRUE, msg |-> MsgJwtUninit]
    ELSE IF ~g.client /\ env.API_HOST = ""
    THEN [g |-> g, exc |-> TRUE, msg |-> MsgNoHost]
    ELSE LET t == get_token(g.token, g.expiry, now, signOk)
             g1 == [g EXCEPT !.client = TRUE, !.token = t.token,
                             !.expiry = t.expiry, !.tokenCalls = @ + 1]
         IN IF t.raised
            THEN [g |-> g1, exc |-> TRUE, msg |-> MsgWrapped(S("signing failed"))]
            ELSE [g |-> [g1 EXCEPT !.requests = Append(@, Req(ep, d, a, Empty, t.result))],
                  exc |-> FALSE, msg |-> Empty]

\* weather_server._make_request up to its await
server_make_request_start(g, ep, d, a) ==
    IF env.API_KEY = "" \/ env.API_KEY = "your_api_key_here"
    THEN [g |-> g, exc |-> TRUE, msg |-> MsgNoKey]
    ELSE [g |-> [g EXCEPT !.requests = Append(@, Req(ep, d, a, Empty, NoToken))],
          exc |-> FALSE, msg |-> Empty]

\* _get_weather_warning, _get_air_quality_current, _get_air_quality_forecast up
\* to their await: the coordinate check outside the try, then float(), get_token
\* and client.get inside it, where every exception is swallowed.
\* started = FALSE: the sub-query has returned its empty value; logged: after
\* logging the warning of its except clause.
direct_start_no_coord_check(g, ep, lat, lon, signOk) ==
    IF ~IsFloat(lat) \/ ~IsFloat(lon)
    THEN [g |-> g, started |-> FALSE, logged |-> TRUE]
    ELSE IF ~jwt_manager THEN [g |-> g, started |-> FALSE, logged |-> TRUE]
    ELSE LET t == get_token(g.token, g.expiry, now, signOk)
             g1 == [g EXCEPT !.token = t.token, !.expiry = t.expiry,
                             !.tokenCalls = @ + 1]
         IN IF t.raised \/ ~g.client
            THEN [g |-> g1, started |-> FALSE, logged |-> TRUE]
            ELSE [g |-> [g1 EXCEPT !.requests =
                            Append(@, Req(ep, 0, Fmt2(lat), Fmt2(lon), t.result))],
                  started |-> TRUE, logged |-> FALSE]
direct_start(g, ep, lat, lon, signOk) ==
    IF Len(lat) = 0 \/ Len(lon) = 0
    THEN [g |-> g, started |-> FALSE, logged |-> FALSE]
    ELSE IF ~IsFloat(lat) \/ ~IsFloat(lon)
    THEN [g |-> g, started |-> FALSE, logged |-> TRUE]
    ELSE IF ~jwt_manager THEN [g |-> g, started |-> FALSE, logged |-> TRUE]
    ELSE LET t == get_token(g.token, g.expiry, now, signOk)
             g1 == [g EXCEPT !.token = t.token, !.expiry = t.expiry,
                             !.tokenCalls = @ + 1]
         IN IF t.raised \/ ~g.client
            THEN [g |-> g1, started |-> FALSE, logged |-> TRUE]
            ELSE [g |-> [g1 EXCEPT !.requests =
                            Append(@, Req(ep, 0, Fmt2(lat), Fmt2(lon), t.result))],
                  started |-> TRUE, logged |-> FALSE]

(***************************************************************************)
(* The location resolvers.                                                 *)
(***************************************************************************)
NoLookup == [received |-> FALSE, resp |-> Json(LookupBody("", FALSE, <<>>))]
Received(resp) == [received |-> TRUE, resp |-> resp]
NoCity == [id |-> Empty, name |-> Empty, lat |-> Empty, lon |-> Empty]

\* display name: f"{adm1}{name}" when adm1 is present and differs from name
DisplayName(c) ==
    IF Len(c.adm1) > 0 /\ c.adm1 # c.name THEN c.adm1 \o c.name ELSE c.name

\* what both resolvers do with the lookup response: the first match only
lookup_finish_no_empty_check(resp, location, prog) ==
    LET r == make_request_finish(resp, prog) IN
    IF r.exc THEN [exc |-> TRUE, msg |-> r.msg, city |-> NoCity]
    ELSE IF ~r.data.hasLocation
    THEN [exc |-> TRUE, msg |-> MsgNotFound(location), city |-> NoCity]
    ELSE IF Len(r.data.location) = 0
    THEN [exc |-> TRUE, msg |-> MsgIndexError, city |-> NoCity]
    ELSE LET c == r.data.location[1] IN
         [exc |-> FALSE, msg |-> Empty,
          city |-> [id |-> c.id, name |-> DisplayName(c),
                    lat |-> IF prog = "weather_mcp" THEN c.lat ELSE Empty,
                    lon |-> IF prog = "weather_mcp" THEN c.lon ELSE Empty]]
lookup_finish(resp, location, prog) ==
    LET r == make_request_finish(resp, prog) IN
    IF r.exc THEN [exc |-> TRUE, msg |-> r.msg, city |-> NoCity]
    ELSE IF ~r.data.hasLocation \/ Len(r.data.location) = 0
    THEN [exc |-> TRUE, msg |-> MsgNotFound(location), city |-> NoCity]
    ELSE LET c == r.data.location[1] IN
         [exc |-> FALSE, msg |-> Empty,
          city |-> [id |-> c.id, name |-> DisplayName(c),
                    lat |-> IF prog = "weather_mcp" THEN c.lat ELSE Empty,
                    lon |-> IF prog = "weather_mcp" THEN c.lon ELSE Empty]]

\* weather_mcp._get_city_info up to its await: the lookup is always requested
get_city_info_start_prefetch(g, location, signOk) ==
    LET w == mcp_make_request_start(g, "/v7/weather/now", 0, location, signOk)
        r == mcp_make_request_start(w.g, "/geo/v2/city/lookup", 0, location, signOk)
    IN [g |-> r.g, exc |-> r.exc, msg |-> r.msg, skipped |-> FALSE, city |-> NoCity]
get_city_info_start(g, location, signOk) ==
    LET r == mcp_make_request_start(g, "/geo/v2/city/lookup", 0, location, signOk)
    IN [g |-> r.g, exc |-> r.exc, msg |-> r.msg, skipped |-> FALSE, city |-> NoCity]

\* weather_server._get_location_id up to its await: an all-digit location is
\* returned as the identifier and the name, with no request
get_location_id_always_lookup(g, location) ==
    LET r == server_make_request_start(g, "/geo/v2/city/lookup", 0, location)
    IN [g |-> r.g, exc |-> r.exc, msg |-> r.msg, skipped |-> FALSE, city |-> NoCity]
get_location_id_start(g, location) ==
    IF isdigit(location)
    THEN [g |-> g, exc |-> FALSE, msg |-> Empty, skipped |-> TRUE,
          city |-> [id |-> location, name |-> location, lat |-> Empty, lon |-> Empty]]
    ELSE LET r == server_make_request_start(g, "/geo/v2/city/lookup", 0, location)
         IN [g |-> r.g, exc |-> r.exc, msg |-> r.msg, skipped |-> FALSE,
             city |-> NoCity]

(***************************************************************************)
(* Rendering.  A text is the sequence of the lines the code joins.         *)
(***************************************************************************)
RECURSIVE Flatten(_)
Flatten(ss) == IF ss = <<>> THEN <<>> ELSE Head(ss) \o Flatten(Tail(ss))

Raise(msg) == [raised |-> TRUE, msg |-> msg, text |-> <<>>]
Return(lines) == [raised |-> FALSE, msg |-> Empty, text |-> lines]

\* the lines of the current conditions, common to both modules
conditions_lines(name, n) ==
    << <<"City: ">> \o name,
       <<"Observed: ">> \o n.obsTime,
       <<"Temperature: ">> \o n.temp,
       <<"Feels like: ">> \o n.feelsLike,
       <<"Weather: ">> \o n.text,
       <<"Wind direction: ">> \o n.windDir,
       <<"Wind scale: ">> \o n.windScale,
       <<"Humidity: ">> \o n.humidity >>
    \o (IF Len(n.pressure) > 0 THEN << <<"Pressure: ">> \o n.pressure >> ELSE <<>>)
    \o << <<"Precipitation: ">> \o n.precip,
          <<"Visibility: ">> \o n.vis >>

\* description[:100] followed by "..."
Truncate100(d) ==
    SubSeq(d, 1, IF Len(d) < DESC_LIMIT THEN Len(d) ELSE DESC_LIMIT) \o <<"...">>

warning_lines_uncapped(ws) ==
    << S("Weather alerts:") >>
    \o Flatten([i \in 1..Len(ws) |->
          << <<ToString(i), ". ">> \o ws[i].headline,
             <<"Type: ">> \o ws[i].event_type,
             <<"Severity: ">> \o ws[i].severity,
             <<"Description: ">> \o Truncate100(ws[i].description) >>])
warning_lines(ws) ==
    << S("Weather alerts:") >>
    \o Flatten([i \in 1..(IF Len(ws) < 3 THEN Len(ws) ELSE 3) |->
          << <<ToString(i), ". ">> \o ws[i].headline,
             <<"Type: ">> \o ws[i].event_type,
             <<"Severity: ">> \o ws[i].severity,
             <<"Description: ">> \o Truncate100(ws[i].description) >>])

air_lines(aq) ==
    << S("Air quality:"),
       <<"AQI: ">> \o aq.aqi \o <<" (">> \o aq.category \o <<")">>,
       <<"Primary pollutant: ">> \o aq.primary_pollutant,
       <<"PM2.5: ">> \o aq.pm25,
       <<"PM10: ">> \o aq.pm10 >>
    \o (IF Len(aq.health_effect) > 0
        THEN << <<"Health effect: ">> \o aq.health_effect >> ELSE <<>>)
    \o (IF Len(aq.health_advice_general) > 0
        THEN << <<"Advice: ">> \o aq.health_advice_general >> ELSE <<>>)

indices_lines(ix) ==
    << S("Indices today:") >>
    \o Flatten([i \in 1..Len(ix) |->
          << <<"* ">> \o ix[i].name \o <<": ">> \o ix[i].category >>
          \o (IF Len(ix[i].text) > 0 THEN << ix[i].text >> ELSE <<>>)])

(***************************************************************************)
(* The forecast report.                                                    *)
(***************************************************************************)
\* int(s) for a string of decimal digits
DigitVal(ch) == CHOOSE n \in 0..9 : ToString(n) = ch
RECURSIVE IntOf(_)
IntOf(s) == IF Len(s) = 0 THEN 0
            ELSE 10 * IntOf(SubSeq(s, 1, Len(s) - 1)) + DigitVal(s[Len(s)])

\* float(s) for the precipitation texts of the provider
NumberText == {S("0.0"), S("1.5")}
IsPositive(s) == s = S("1.5")

\* datetime.strptime(fx_date, "%Y-%m-%d").weekday(), "" when it does not parse
Weekday(d) == IF Len(d) = 1 /\ d[1] \in {"2024-01-0" \o ToString(i) : i \in 1..9}
              THEN <<"weekday of ", d[1]>> ELSE Empty

UvDescription(level) ==
    IF level <= 2 THEN "weak"
    ELSE IF level <= 5 THEN "moderate"
    ELSE IF level <= 7 THEN "strong"
    ELSE "very strong"

\* the lines of forecast entry i; int() and float() raise ValueError on text
\* that is no number
day_lines_same_aq(i, day, aq_on, aq_days) ==
    IF Len(day.uvIndex) > 0 /\ ~isdigit(day.uvIndex) THEN Raise(MsgValueError)
    ELSE IF Len(day.precip) > 0 /\ day.precip \notin NumberText THEN Raise(MsgValueError)
    ELSE Return(
        << <<ToString(i), ". ">> \o day.fxDate \o <<" ">> \o Weekday(day.fxDate),
           <<"Day: ">> \o day.textDay,
           <<"Night: ">> \o day.textNight,
           <<"Temperature: ">> \o day.tempMin \o <<" ~ ">> \o day.tempMax,
           <<"Wind: ">> \o day.windDirDay \o <<" ">> \o day.windScaleDay,
           <<"Humidity: ">> \o day.humidity >>
        \o (IF Len(day.precip) > 0 /\ IsPositive(day.precip)
            THEN << <<"Precipitation: ">> \o day.precip >> ELSE <<>>)
        \o (IF Len(day.uvIndex) > 0
            THEN << <<"UV: ", UvDescription(IntOf(day.uvIndex)), " (">>
                    \o day.uvIndex \o <<")">> >>
            ELSE <<>>)
        \o (IF aq_on /\ Len(aq_days) > 0 /\ Len(aq_days[1].indexes) > 0
            THEN << <<"Air quality: ">> \o aq_days[1].indexes[1].aqiDisplay
                    \o <<" (">> \o aq_days[1].indexes[1].category \o <<")">> >>
            ELSE <<>>)
        \o << Empty >>)
day_lines(i, day, aq_on, aq_days) ==
    IF Len(day.uvIndex) > 0 /\ ~isdigit(day.uvIndex) THEN Raise(MsgValueError)
    ELSE IF Len(day.precip) > 0 /\ day.precip \notin NumberText THEN Raise(MsgValueError)
    ELSE Return(
        << <<ToString(i), ". ">> \o day.fxDate \o <<" ">> \o Weekday(day.fxDate),
           <<"Day: ">> \o day.textDay,
           <<"Night: ">> \o day.textNight,
           <<"Temperature: ">> \o day.tempMin \o <<" ~ ">> \o day.tempMax,
           <<"Wind: ">> \o day.windDirDay \o <<" ">> \o day.windScaleDay,
           <<"Humidity: ">> \o day.humidity >>
        \o (IF Len(day.precip) > 0 /\ IsPositive(day.precip)
            THEN << <<"Precipitation: ">> \o day.precip >> ELSE <<>>)
        \o (IF Len(day.uvIndex) > 0
            THEN << <<"UV: ", UvDescription(IntOf(day.uvIndex)), " (">>
                    \o day.uvIndex \o <<")">> >>
            ELSE <<>>)
        \o (IF aq_on /\ Len(aq_days) > 0 /\ i <= Len(aq_days)
               /\ Len(aq_days[i].indexes) > 0
            THEN << <<"Air quality: ">> \o aq_days[i].indexes[1].aqiDisplay
                    \o <<" (">> \o aq_days[i].indexes[1].category \o <<")">> >>
            ELSE <<>>)
        \o << Empty >>)

\* the loop over data["daily"][:days], entries numbered from 1
RECURSIVE days_lines(_, _, _, _, _)
days_lines(i, daily, n, aq_on, aq_days) ==
    IF i > n \/ i > Len(daily) THEN Return(<<>>)
    ELSE LET d == day_lines(i, daily[i], aq_on, aq_days) IN
         IF d.raised THEN d
         ELSE LET rest == days_lines(i + 1, daily, n, aq_on, aq_days) IN
              IF rest.raised THEN rest ELSE Return(d.text \o rest.text)

\* the names of the indices in first-seen order
RECURSIVE GroupNames(_)
GroupNames(ix) ==
    IF ix = <<>> THEN <<>>
    ELSE LET before == GroupNames(SubSeq(ix, 1, Len(ix) - 1))
             nm == ix[Len(ix)].name
         IN IF \E k \in 1..Len(before) : before[k] = nm THEN before
            ELSE Append(before, nm)

grouped_indices_lines(ix) ==
    LET names == GroupNames(ix) IN
    << S("Life indices of the next 3 days:") >>
    \o Flatten([k \in 1..Len(names) |->
          << <<"* ">> \o names[k] \o <<":">> >>
          \o Flatten([j \in 1..Len(ix) |->
                IF ix[j].name = names[k]
                THEN << ix[j].category \o <<" - ">> \o ix[j].text >>
                ELSE <<>>])])

(***************************************************************************)
(* The sub-queries from their response on.  Each swallows every exception  *)
(* and gives its empty value: [] for alerts, indices and air-quality days, *)
(* None (here <<>>) for the current air quality.                           *)
(***************************************************************************)
warning_finish_ignoring_zero(resp) ==
    IF resp.kind # "json" THEN <<>>
    ELSE [i \in 1..Len(resp.body.alerts) |->
            [headline |-> resp.body.alerts[i].headline,
             event_type |-> resp.body.alerts[i].eventType,
             severity |-> resp.body.alerts[i].severity,
             description |-> resp.body.alerts[i].description]]
warning_finish(resp) ==
    IF resp.kind # "json" THEN <<>>
    ELSE IF resp.body.zeroResult THEN <<>>
    ELSE [i \in 1..Len(resp.body.alerts) |->
            [headline |-> resp.body.alerts[i].headline,
             event_type |-> resp.body.alerts[i].eventType,
             severity |-> resp.body.alerts[i].severity,
             description |-> resp.body.alerts[i].description]]

air_current_finish(resp) ==
    IF resp.kind # "json" THEN <<>>
    ELSE IF Len(resp.body.indexes) = 0 THEN <<>>
    ELSE LET a == resp.body.indexes[1] IN
         << [aqi |-> a.aqi, category |-> a.category, primary_pollutant |-> a.primary,
             pm25 |-> a.pm25, pm10 |-> a.pm10, health_effect |-> a.effect,
             health_advice_general |-> a.advice] >>

air_forecast_finish(resp) ==
    IF resp.kind # "json" THEN <<>> ELSE resp.body.days

indices_finish(resp) ==
    LET r == make_request_finish(resp, "weather_mcp") IN
    IF r.exc THEN <<>>
    ELSE [i \in 1..Len(r.data.daily) |->
            [name |-> r.data.daily[i].name, category |-> r.data.daily[i].category,
             text |-> r.data.daily[i].text]]

(***************************************************************************)
(* Configuration read at import, and the singletons built from it.         *)
(***************************************************************************)
Env(project, kid, key, path, host, apikey) ==
    [PROJECT_ID |-> project, KEY_ID |-> kid, PRIVATE_KEY |-> key,
     PRIVATE_KEY_PATH |-> path, API_HOST |-> host, API_KEY |-> apikey]

\* the file system and the PEM parser, as far as the private key goes
Exists(path) == path \in {"/key.pem", "/garbage.pem", "/unreadable.pem"}
Readable(path) == path \in {"/key.pem", "/garbage.pem"}
Content(path) == IF path = "/key.pem" THEN "pem" ELSE "garbage"
ParsesAsKey(pem) == pem = "pem"

\* _init_jwt_manager(): TRUE when jwt_manager is set, FALSE when it stays None
init_jwt_manager(e) ==
    IF e.PROJECT_ID = "" \/ e.KEY_ID = "" THEN FALSE
    ELSE IF e.PRIVATE_KEY # "" THEN ParsesAsKey(e.PRIVATE_KEY)
    ELSE IF e.PRIVATE_KEY_PATH # "" /\ Exists(e.PRIVATE_KEY_PATH)
    THEN Readable(e.PRIVATE_KEY_PATH) /\ ParsesAsKey(Content(e.PRIVATE_KEY_PATH))
    ELSE FALSE

\* _init_http_client(): TRUE when client is set
init_http_client(e) == e.API_HOST # ""

(***************************************************************************)
(* The tools.                                                              *)
(***************************************************************************)
VALID_DAYS == {3, 7, 10, 15, 30}

\* "if days not in valid_days: days = 7"
coerce_days_unchecked(d) == d
coerce_days(d) == IF d \notin VALID_DAYS THEN DEFAULT_DAYS ELSE d

\* one awaitable handed to asyncio.gather
\* state: "awaiting" its response or "done"; exc, msg: it raised; val: what it
\* returned; logged: it swallowed an exception and logged the warning; resp: the
\* response its request got, NoResponse while it has none
NoResponse == [kind |-> "none", http |-> 0, body |-> <<>>]
Awaiting(kind, v) == [kind |-> kind, state |-> "awaiting", exc |-> FALSE,
                      msg |-> Empty, val |-> v, logged |-> FALSE, resp |-> NoResponse]
Done(kind, v) == [kind |-> kind, state |-> "done", exc |-> FALSE,
                  msg |-> Empty, val |-> v, logged |-> FALSE, resp |-> NoResponse]
Swallowed(kind, v) == [kind |-> kind, state |-> "done", exc |-> FALSE,
                       msg |-> Empty, val |-> v, logged |-> TRUE, resp |-> NoResponse]
Failed(kind, m, v) == [kind |-> kind, state |-> "done", exc |-> TRUE,
                       msg |-> m, val |-> v, logged |-> FALSE, resp |-> NoResponse]

NoNow == NowBody("", FALSE, Now1)
NoDaily == DailyBody("", FALSE, 0)

\* the tasks list of get_current_weather and of get_weather_forecast
current_tasks(c) ==
    <<"now">>
    \o (IF c.include_warning THEN <<"warning">> ELSE <<>>)
    \o (IF c.include_air_quality THEN <<"air">> ELSE <<>>)
    \o (IF c.include_indices THEN <<"indices1d">> ELSE <<>>)
forecast_tasks(c) ==
    <<"daily">>
    \o (IF c.include_air_quality THEN <<"airdaily">> ELSE <<>>)
    \o (IF c.include_indices THEN <<"indices3d">> ELSE <<>>)

\* a task runs from its start to its first await
start_task(kind, g, cty, d, signOk) ==
    IF kind \in {"now", "daily"}
    THEN LET r == IF kind = "now"
                  THEN mcp_make_request_start(g, "/v7/weather/now", 0, cty.id, signOk)
                  ELSE mcp_make_request_start(g, "/v7/weather/{days}d", d, cty.id, signOk)
             none == IF kind = "now" THEN NoNow ELSE NoDaily
         IN [g |-> r.g,
             task |-> IF r.exc THEN Failed(kind, r.msg, none) ELSE Awaiting(kind, none)]
    ELSE IF kind \in {"indices1d", "indices3d"}
    THEN LET r == mcp_make_request_start(
                      g, IF kind = "indices1d" THEN "/v7/indices/1d" ELSE "/v7/indices/3d",
                      0, cty.id, signOk)
         IN [g |-> r.g,
             task |-> IF r.exc THEN Swallowed(kind, <<>>) ELSE Awaiting(kind, <<>>)]
    ELSE LET ep == IF kind = "warning" THEN "/weatheralert/v1/current"
                   ELSE IF kind = "air" THEN "/airquality/v1/current"
                   ELSE "/airquality/v1/daily"
             r == direct_start(g, ep, cty.lat, cty.lon, signOk)
         IN [g |-> r.g,
             task |-> IF r.started THEN Awaiting(kind, <<>>)
                      ELSE IF r.logged THEN Swallowed(kind, <<>>)
                      ELSE Done(kind, <<>>)]

\* asyncio.gather starts its awaitables in the order given
RECURSIVE start_all(_, _, _, _, _)
start_all(kinds, g, cty, d, signOk) ==
    IF kinds = <<>> THEN [g |-> g, tasks |-> <<>>]
    ELSE LET s == start_task(Head(kinds), g, cty, d, signOk)
             rest == start_all(Tail(kinds), s.g, cty, d, signOk)
         IN [g |-> rest.g, tasks |-> <<s.task>> \o rest.tasks]

\* the responses the provider may give to the request of a task
Responses(kind) ==
    IF kind = "now" THEN NowResponses
    ELSE IF kind = "daily" THEN DailyResponses
    ELSE IF kind = "warning" THEN AlertResponses
    ELSE IF kind = "air" THEN AirResponses
    ELSE IF kind = "airdaily" THEN AirDailyResponses
    ELSE IndexResponses

\* a task from its response to its end
finish_task(t, resp) ==
    LET end ==
        IF t.kind \in {"now", "daily"}
        THEN LET r == make_request_finish(resp, "weather_mcp") IN
             IF r.exc THEN Failed(t.kind, r.msg, t.val) ELSE Done(t.kind, r.data)
        ELSE IF t.kind \in {"indices1d", "indices3d"}
        THEN IF make_request_finish(resp, "weather_mcp").exc
             THEN Swallowed(t.kind, indices_finish(resp))
             ELSE Done(t.kind, indices_finish(resp))
        ELSE LET v == IF t.kind = "warning" THEN warning_finish(resp)
                      ELSE IF t.kind = "air" THEN air_current_finish(resp)
                      ELSE air_forecast_finish(resp)
             IN IF resp.kind # "json" THEN Swallowed(t.kind, v) ELSE Done(t.kind, v)
    IN [end EXCEPT !.resp = resp]

\* results[k] of the code (0-based): IndexError when k is out of range
OutOfRange(results, k) == k + 1 > Len(results)
ResultAt(results, k) == results[k + 1]

\* get_current_weather from the return of asyncio.gather to its return
current_report_partial(c, cty, results) ==
    IF \/ c.include_warning /\ OutOfRange(results, 1)
       \/ c.include_air_quality /\ OutOfRange(results, 2)
       \/ c.include_indices /\ OutOfRange(results, 3)
    THEN Raise(MsgIndexError)
    ELSE LET weather_data == results[1].val
             warning_list == IF c.include_warning THEN ResultAt(results, 1).val ELSE <<>>
             air_quality == IF c.include_air_quality THEN ResultAt(results, 2).val ELSE <<>>
             indices == IF c.include_indices THEN ResultAt(results, 3).val ELSE <<>>
         IN IF ~weather_data.hasNow
            THEN Return(<< <<"no weather information for ">> \o cty.name >>
                \o (IF c.include_warning /\ Len(warning_list) > 0
                    THEN warning_lines(warning_list) ELSE <<>>)
                \o (IF c.include_air_quality /\ Len(air_quality) > 0
                    THEN air_lines(air_quality[1]) ELSE <<>>)
                \o (IF c.include_indices /\ Len(indices) > 0
                    THEN indices_lines(indices) ELSE <<>>))
            ELSE IF ~weather_data.now.valid THEN Raise(MsgValidation)
            ELSE Return(conditions_lines(cty.name, weather_data.now))
current_report(c, cty, results) ==
    IF results[1].exc THEN Raise(results[1].msg)
    ELSE IF \/ c.include_warning /\ OutOfRange(results, 1)
            \/ c.include_air_quality /\ OutOfRange(results, 2)
            \/ c.include_indices /\ OutOfRange(results, 3)
    THEN Raise(MsgIndexError)
    ELSE LET weather_data == results[1].val
             warning_list == IF c.include_warning THEN ResultAt(results, 1).val ELSE <<>>
             air_quality == IF c.include_air_quality THEN ResultAt(results, 2).val ELSE <<>>
             indices == IF c.include_indices THEN ResultAt(results, 3).val ELSE <<>>
         IN IF ~weather_data.hasNow
            THEN Return(<< <<"no weather information for ">> \o cty.name >>)
            ELSE IF ~weather_data.now.valid THEN Raise(MsgValidation)
            ELSE Return(
                conditions_lines(cty.name, weather_data.now)
                \o (IF c.include_warning /\ Len(warning_list) > 0
                    THEN warning_lines(warning_list) ELSE <<>>)
                \o (IF c.include_air_quality /\ Len(air_quality) > 0
                    THEN air_lines(air_quality[1]) ELSE <<>>)
                \o (IF c.include_indices /\ Len(indices) > 0
                    THEN indices_lines(indices) ELSE <<>>))

\* get_weather_forecast from the return of asyncio.gather to its return
forecast_report(c, d, cty, results) ==
    IF results[1].exc THEN Raise(results[1].msg)
    ELSE IF \/ c.include_air_quality /\ OutOfRange(results, 1)
            \/ c.include_indices /\ OutOfRange(results, 2)
    THEN Raise(MsgIndexError)
    ELSE LET data == results[1].val
             air_quality_days == IF c.include_air_quality
                                 THEN ResultAt(results, 1).val ELSE <<>>
             indices == IF c.include_indices THEN ResultAt(results, 2).val ELSE <<>>
         IN IF ~data.hasDaily \/ Len(data.daily) = 0
            THEN Return(<< <<"no weather forecast for ">> \o cty.name >>)
            ELSE LET body == days_lines(1, data.daily, d, c.include_air_quality,
                                        air_quality_days)
                 IN IF body.raised THEN body
                    ELSE Return(
                        << cty.name \o <<" forecast, next ", ToString(d), " days:">> >>
                        \o body.text
                        \o (IF c.include_indices /\ Len(indices) > 0
                            THEN grouped_indices_lines(indices) ELSE <<>>))

\* the try/except Exception around the body of each tool: what the framework
\* gets.  kind "text": the tool returned a string; "exception": it raised.
FailurePrefix(tool) ==
    IF tool = "get_current_weather" THEN MsgCurrentFailed ELSE MsgForecastFailed
tool_boundary_uncaught(out, tool) ==
    IF out.raised THEN [kind |-> "exception", text |-> << out.msg >>]
    ELSE [kind |-> "text", text |-> out.text]
tool_boundary(out, tool) ==
    [kind |-> "text",
     text |-> IF out.raised THEN << <<FailurePrefix(tool)>> \o out.msg >>
              ELSE out.text]

NoReturn == [kind |-> "none", text |-> <<>>]

\* the days arguments a caller may pass
DaysInputs == {-1, 0, 3, 7, 8, 10, 15, 30, 31}

Call(tool, l, d, w, a, i) ==
    [tool |-> tool, location |-> l, days |-> d, include_warning |-> w,
     include_air_quality |-> a, include_indices |-> i]
NoCall2 == Call("none", Empty, DEFAULT_DAYS, TRUE, TRUE, TRUE)

\* writes back the process-wide state a coroutine step leaves
Apply(g) ==
    /\ client' = g.client
    /\ token' = g.token
    /\ expiry' = g.expiry
    /\ tokenCalls' = g.tokenCalls
    /\ requests' = g.requests

\* the tool raised or returned before any await is left pending
Finish(out, tool) ==
    /\ pc' = "done"
    /\ ret' = tool_boundary(out, tool)

(***************************************************************************)
(* weather_mcp: a tool call runs to the await of the city lookup           *)
(***************************************************************************)
mcp_call(c, signOk) ==
    LET r == get_city_info_start(Globals, c.location, signOk) IN
    /\ call' = c
    /\ days' = IF c.tool = "get_weather_forecast" THEN coerce_days(c.days) ELSE c.days
    /\ Apply(r.g)
    /\ city' = NoCity
    /\ tasks' = <<>>
    /\ IF r.exc THEN Finish(Raise(r.msg), c.tool)
       ELSE pc' = "resolving" /\ ret' = NoReturn
    /\ UNCHANGED <<now, ticks, calls, signings, returned, program, env, jwt_manager,
                   lookup, procVars>>

get_current_weather ==
    /\ pc = "idle"
    /\ program = "weather_mcp"
    /\ \E l \in Locations, w \in BOOLEAN, a \in BOOLEAN, i \in BOOLEAN,
          signOk \in BOOLEAN :
         mcp_call(Call("get_current_weather", l, DEFAULT_DAYS, w, a, i), signOk)

get_weather_forecast ==
    /\ pc = "idle"
    /\ program = "weather_mcp"
    /\ \E l \in Locations, d \in DaysInputs, a \in BOOLEAN, i \in BOOLEAN,
          signOk \in BOOLEAN :
         mcp_call(Call("get_weather_forecast", l, d, TRUE, a, i), signOk)

\* the lookup answers: _get_city_info ends, and on success the tool builds its
\* tasks and runs to the await of asyncio.gather
LookupResponse ==
    /\ pc = "resolving"
    /\ program = "weather_mcp"
    /\ \E resp \in LookupResponses, signOk \in BOOLEAN :
         LET r == lookup_finish(resp, call.location, program)
             kinds == IF call.tool = "get_current_weather"
                      THEN current_tasks(call) ELSE forecast_tasks(call)
             s == start_all(kinds, Globals, r.city, days, signOk)
         IN /\ lookup' = Received(resp)
            /\ IF r.exc
               THEN /\ Finish(Raise(r.msg), call.tool)
                    /\ UNCHANGED <<city, tasks, client, token, expiry, tokenCalls,
                                   requests>>
               ELSE /\ city' = r.city
                    /\ tasks' = s.tasks
                    /\ Apply(s.g)
                    /\ pc' = "gathering"
                    /\ ret' = NoReturn
    /\ UNCHANGED <<now, ticks, calls, signings, returned, program, env, jwt_manager,
                   call, days, procVars>>

\* the provider answers the request of one task, in any order
SubQueryResponse ==
    /\ pc = "gathering"
    /\ \E i \in 1..Len(tasks) :
         /\ tasks[i].state = "awaiting"
         /\ \E resp \in Responses(tasks[i].kind) :
              tasks' = [tasks EXCEPT ![i] = finish_task(tasks[i], resp)]
    /\ UNCHANGED <<jwtVars, globalVars, procVars, pc, call, days, lookup, city,
                   requests, tokenCalls, ret>>

\* asyncio.gather(..., return_exceptions=True) returns when every task has
\* ended, and the tool runs to its return
GatherReturnsOnFirstException ==
    /\ pc = "gathering"
    /\ \/ \A i \in 1..Len(tasks) : tasks[i].state = "done"
       \/ \E i \in 1..Len(tasks) : tasks[i].exc
    /\ Finish(IF \E i \in 1..Len(tasks) : tasks[i].exc
              THEN Raise(tasks[CHOOSE i \in 1..Len(tasks) : tasks[i].exc].msg)
              ELSE IF call.tool = "get_current_weather"
              THEN current_report(call, city, tasks)
              ELSE forecast_report(call, days, city, tasks),
              call.tool)
    /\ UNCHANGED <<jwtVars, globalVars, procVars, call, days, lookup, city, tasks,
                   requests, tokenCalls>>
GatherReturns ==
    /\ pc = "gathering"
    /\ \A i \in 1..Len(tasks) : tasks[i].state = "done"
    /\ Finish(IF call.tool = "get_current_weather"
              THEN current_report(call, city, tasks)
              ELSE forecast_report(call, days, city, tasks),
              call.tool)
    /\ UNCHANGED <<jwtVars, globalVars, procVars, call, days, lookup, city, tasks,
                   requests, tokenCalls>>

\* the framework takes the text; the module is ready for the next call
NextCall ==
    /\ pc = "done"
    /\ pc' = "idle"
    /\ call' = NoCall2
    /\ days' = DEFAULT_DAYS
    /\ lookup' = NoLookup
    /\ city' = NoCity
    /\ tasks' = <<>>
    /\ requests' = <<>>
    /\ tokenCalls' = 0
    /\ ret' = NoReturn
    /\ UNCHANGED <<jwtVars, globalVars, procVars>>

(***************************************************************************)
(* weather_server: the tools make their requests one after the other       *)
(***************************************************************************)
\* the tool from the resolved location to the await of its weather request
server_fetch(g, c, d, cty) ==
    LET r == IF c.tool = "get_current_weather"
             THEN server_make_request_start(g, "/v7/weather/now", 0, cty.id)
             ELSE server_make_request_start(g, "/v7/weather/{days}d", d, cty.id)
    IN /\ city' = cty
       /\ Apply(r.g)
       /\ IF r.exc THEN Finish(Raise(r.msg), c.tool)
          ELSE pc' = "fetching" /\ ret' = NoReturn

server_call(c) ==
    LET d == IF c.tool = "get_weather_forecast" THEN coerce_days(c.days) ELSE c.days
        r == get_location_id_start(Globals, c.location)
    IN /\ call' = c
       /\ days' = d
       /\ tasks' = <<>>
       /\ IF r.exc
          THEN Finish(Raise(r.msg), c.tool) /\ Apply(r.g) /\ city' = NoCity
          ELSE IF r.skipped THEN server_fetch(r.g, c, d, r.city)
          ELSE Apply(r.g) /\ city' = NoCity /\ pc' = "resolving" /\ ret' = NoReturn
       /\ UNCHANGED <<now, ticks, calls, signings, returned, program, env, jwt_manager,
                      lookup, procVars>>

server_get_current_weather ==
    /\ pc = "idle"
    /\ program = "weather_server"
    /\ \E l \in Locations :
         server_call(Call("get_current_weather", l, DEFAULT_DAYS, TRUE, TRUE, TRUE))

server_get_weather_forecast ==
    /\ pc = "idle"
    /\ program = "weather_server"
    /\ \E l \in Locations, d \in DaysInputs :
         server_call(Call("get_weather_forecast", l, d, TRUE, TRUE, TRUE))

ServerLookupResponse ==
    /\ pc = "resolving"
    /\ program = "weather_server"
    /\ \E resp \in LookupResponses :
         LET r == lookup_finish(resp, call.location, program) IN
         /\ lookup' = Received(resp)
         /\ IF r.exc
            THEN /\ Finish(Raise(r.msg), call.tool)
                 /\ UNCHANGED <<city, client, token, expiry, tokenCalls, requests>>
            ELSE server_fetch(Globals, call, days, r.city)
    /\ UNCHANGED <<now, ticks, calls, signings, returned, program, env, jwt_manager,
                   call, days, tasks, procVars>>

\* weather_server's tools from the weather response to their return
server_current_report(cty, resp) ==
    LET r == make_request_finish(resp, "weather_server") IN
    IF r.exc THEN Raise(r.msg)
    ELSE IF ~r.data.hasNow
    THEN Return(<< <<"no weather information for ">> \o cty.name >>)
    ELSE IF ~r.data.now.valid THEN Raise(MsgValidation)
    ELSE Return(conditions_lines(cty.name, r.data.now))

server_forecast_report(d, cty, resp) ==
    LET r == make_request_finish(resp, "weather_server") IN
    IF r.exc THEN Raise(r.msg)
    ELSE IF ~r.data.hasDaily \/ Len(r.data.daily) = 0
    THEN Return(<< <<"no weather forecast for ">> \o cty.name >>)
    ELSE LET body == days_lines(1, r.data.daily, d, FALSE, <<>>) IN
         IF body.raised THEN body
         ELSE Return(<< cty.name \o <<" forecast, next ", ToString(d), " days:">> >>
                     \o body.text)

ServerWeatherResponse ==
    /\ pc = "fetching"
    /\ program = "weather_server"
    /\ \E resp \in (IF call.tool = "get_current_weather"
                    THEN NowResponses ELSE DailyResponses) :
         Finish(IF call.tool = "get_current_weather"
                THEN server_current_report(city, resp)
                ELSE server_forecast_report(days, city, resp),
                call.tool)
    /\ UNCHANGED <<jwtVars, globalVars, procVars, call, days, lookup, city, tasks,
                   requests, tokenCalls>>

(***************************************************************************)
(* The tool service: either module, imported under some configuration.     *)
(***************************************************************************)
McpEnvs == {Env("proj", "kid", "pem", "", "host", ""),
            Env("proj", "kid", "", "/key.pem", "", ""),
            Env("", "kid", "pem", "", "host", "")}
ServerEnvs == {Env("", "", "", "", "host", k) : k \in {"", "your_api_key_here", "key"}}

Imported ==
    /\ proc = "imported"
    /\ exitCode = 0
    /\ stderr = <<>>

IdleTool ==
    /\ pc = "idle"
    /\ call = NoCall2
    /\ days = DEFAULT_DAYS
    /\ lookup = NoLookup
    /\ city = NoCity
    /\ tasks = <<>>
    /\ requests = <<>>
    /\ tokenCalls = 0
    /\ ret = NoReturn

Init ==
    /\ program \in {"weather_mcp", "weather_server"}
    /\ env \in (IF program = "weather_mcp" THEN McpEnvs ELSE ServerEnvs)
    /\ jwt_manager = (program = "weather_mcp" /\ init_jwt_manager(env))
    /\ client = (program = "weather_server" \/ init_http_client(env))
    /\ token = NoToken
    /\ expiry = 0
    /\ now = 1000
    /\ ticks = 0
    /\ calls = 0
    /\ signings = 0
    /\ returned = NoCall
    /\ IdleTool
    /\ Imported

Next ==
    \/ get_current_weather
    \/ get_weather_forecast
    \/ LookupResponse
    \/ SubQueryResponse
    \/ GatherReturns
    \/ server_get_current_weather
    \/ server_get_weather_forecast
    \/ ServerLookupResponse
    \/ ServerWeatherResponse
    \/ NextCall

Spec == Init /\ [][Next]_vars

(***************************************************************************)
(* Startup: main() of either module, run after the import.                 *)
(***************************************************************************)
Exited(code, lines) == [proc |-> "exited", exitCode |-> code, stderr |-> lines]
Serving(lines) == [proc |-> "serving", exitCode |-> 0, stderr |-> lines]

\* the lines main logs about the variables of the signing identity
jwt_diagnostic(e) ==
    << "error: JWT auth initialisation failed",
       IF e.PROJECT_ID = "" THEN "QWEATHER_PROJECT_ID: missing"
                            ELSE "QWEATHER_PROJECT_ID: set",
       IF e.KEY_ID = "" THEN "QWEATHER_KEY_ID: missing" ELSE "QWEATHER_KEY_ID: set",
       IF e.PRIVATE_KEY = "" /\ e.PRIVATE_KEY_PATH = "" THEN "private key: missing"
       ELSE IF e.PRIVATE_KEY # "" THEN "private key: set by QWEATHER_PRIVATE_KEY"
       ELSE IF Exists(e.PRIVATE_KEY_PATH) THEN "private key: file exists"
       ELSE "private key: file does not exist" >>

\* weather_mcp.main(): jm is jwt_manager as the import left it
mcp_main_no_host_check(e, jm) ==
    IF ~(jm \/ init_jwt_manager(e)) THEN Exited(1, jwt_diagnostic(e))
    ELSE Serving(<< "JWT auth initialised" >>)
mcp_main(e, jm) ==
    IF ~(jm \/ init_jwt_manager(e)) THEN Exited(1, jwt_diagnostic(e))
    ELSE IF e.API_HOST = ""
    THEN Exited(1, << "error: QWEATHER_API_HOST is not configured" >>)
    ELSE Serving(<< "JWT auth initialised" >>)

\* weather_server.main(): mcp.run() is indented under the if, after sys.exit(1),
\* so with a key configured main returns and the script ends with status 0
server_main(e) ==
    IF e.API_KEY = "" \/ e.API_KEY = "your_api_key_here"
    THEN Exited(1, << "error: QWeather API key is not configured",
                      "set QWEATHER_API_KEY" >>)
    ELSE Exited(0, <<>>)

AllEnvs(prog) ==
    IF prog = "weather_mcp"
    THEN {Env(p, k, key, path, host, "") :
            p \in {"", "proj"}, k \in {"", "kid"}, key \in {"", "pem", "garbage"},
            path \in {"", "/missing.pem", "/unreadable.pem", "/key.pem", "/garbage.pem"},
            host \in {"", "host"}}
    ELSE {Env("", "", "", "", host, k) :
            host \in {"", "host"}, k \in {"", "your_api_key_here", "key"}}

InitMain ==
    /\ program \in {"weather_mcp", "weather_server"}
    /\ env \in AllEnvs(program)
    /\ jwt_manager = (program = "weather_mcp" /\ init_jwt_manager(env))
    /\ client = (program = "weather_server" \/ init_http_client(env))
    /\ token = NoToken
    /\ expiry = 0
    /\ now = 1000
    /\ ticks = 0
    /\ calls = 0
    /\ signings = 0
    /\ returned = NoCall
    /\ IdleTool
    /\ Imported

Run(m) ==
    /\ proc' = m.proc
    /\ exitCode' = m.exitCode
    /\ stderr' = m.stderr

main ==
    /\ proc = "imported"
    /\ program = "weather_mcp"
    /\ Run(mcp_main(env, jwt_manager))
    /\ jwt_manager' = (jwt_manager \/ init_jwt_manager(env))
    /\ UNCHANGED <<jwtVars, toolVars, program, env, client>>

server_main_runs ==
    /\ proc = "imported"
    /\ program = "weather_server"
    /\ Run(server_main(env))
    /\ UNCHANGED <<jwtVars, toolVars, globalVars>>

NextMain == main \/ server_main_runs

SpecMain == InitMain /\ [][NextMain]_vars

\* The clock steps that reach the refresh boundary from either side.
TickSteps == {1, REFRESH_MARGIN, TOKEN_EXPIRY - REFRESH_MARGIN - 1}

InitToken ==
    /\ token = NoToken
    /\ expiry = 0
    /\ now \in {100, 1000}
    /\ ticks = 0
    /\ calls = 0
    /\ signings = 0
    /\ returned = NoCall
    /\ program = "weather_mcp"
    /\ env = Env("proj", "kid", "pem", "", "host", "")
    /\ jwt_manager = init_jwt_manager(env)
    /\ client = init_http_client(env)
    /\ IdleTool
    /\ Imported

\* time passes
Tick ==
    /\ ticks < MaxTicks
    /\ \E d \in TickSteps : now' = now + d
    /\ ticks' = ticks + 1
    /\ UNCHANGED <<token, expiry, calls, signings, returned, globalVars, toolVars, procVars>>

\* a caller (a request of any sub-query) asks the manager for the token
CallGetToken ==
    /\ calls < MaxCalls
    /\ \E signOk \in BOOLEAN :
         LET r == get_token(token, expiry, now, signOk) IN
         /\ token' = r.token
         /\ expiry' = r.expiry
         /\ signings' = signings + r.signed
         /\ returned' = [raised |-> r.raised, result |-> r.result]
    /\ calls' = calls + 1
    /\ UNCHANGED <<now, ticks, globalVars, toolVars, procVars>>

NextToken == Tick \/ CallGetToken

SpecToken == InitToken /\ [][NextToken]_vars

(***************************************************************************)
(* Properties.                                                             *)
(***************************************************************************)
FirstSymbol(line) == IF Len(line) > 0 THEN line[1] ELSE ""
IsFailureText(r) ==
    /\ r.kind = "text"
    /\ Len(r.text) = 1
    /\ FirstSymbol(r.text[1]) \in {MsgCurrentFailed, MsgForecastFailed}
IsCurrentReport(r) ==
    r.kind = "text" /\ Len(r.text) > 1 /\ FirstSymbol(r.text[1]) = "City: "
IsForecastReport(r) ==
    /\ r.kind = "text"
    /\ Len(r.text) >= 1
    /\ \E k \in 1..Len(r.text[1]) : r.text[1][k] = " forecast, next "
HasSection(r, title) == \E k \in 1..Len(r.text) : r.text[k] = S(title)
HasLineStarting(r, tag) == \E k \in 1..Len(r.text) : FirstSymbol(r.text[k]) = tag
RenderedDays(r) ==
    Cardinality({k \in 1..Len(r.text) : Len(r.text[k]) >= 2 /\ r.text[k][2] = ". "})
TaskKinds == [i \in 1..Len(tasks) |-> tasks[i].kind]
\* the sub-query of this kind was launched and returned a non-empty value
NonEmptyResult(kind) ==
    \E i \in 1..Len(tasks) : tasks[i].kind = kind /\ Len(tasks[i].val) > 0

\* C1: get_current_weather and get_weather_forecast always return text: whatever
\* the arguments and the outcome of the resolution and of each sub-query, a
\* finished call has given the framework a non-empty string, and no call ever
\* lets an exception cross the tool boundary.
C1_ToolsAlwaysReturnText ==
    /\ ret.kind # "exception"
    /\ pc = "done" => ret.kind = "text" /\ Len(ret.text) > 0
    /\ pc # "done" => ret = NoReturn

C1_Witness ==
    /\ pc = "done"
    /\ program = "weather_mcp"
    /\ Len(tasks) > 1
    /\ tasks[1].exc
    /\ IsFailureText(ret)

\* the resolution and the mandatory conditions fetch of get_current_weather
\* succeeded, and the call has returned
ConditionsOk ==
    /\ pc = "done"
    /\ program = "weather_mcp"
    /\ call.tool = "get_current_weather"
    /\ Len(tasks) > 0
    /\ ~tasks[1].exc
    /\ tasks[1].val.hasNow
    /\ tasks[1].val.now.valid

SectionTitle(kind) ==
    IF kind = "warning" THEN "Weather alerts:"
    ELSE IF kind = "air" THEN "Air quality:"
    ELSE "Indices today:"

\* C2: in get_current_weather, when the resolution and the conditions fetch
\* succeed and an optional sub-query fails, the tool returns the rendered report,
\* without the section of the failed sub-query and without a failure message.
C2_OptionalFailureIsolated ==
    (ConditionsOk /\ \E i \in 2..Len(tasks) : tasks[i].logged)
    => /\ IsCurrentReport(ret)
       /\ ~IsFailureText(ret)
       /\ \A i \in 2..Len(tasks) :
            tasks[i].logged => ~HasSection(ret, SectionTitle(tasks[i].kind))

\* C3: for each of the 8 combinations of the three flags, when the resolution and
\* the conditions fetch succeed, get_current_weather returns the report, has
\* launched exactly the sub-queries whose flag is true, and shows each optional
\* section if and only if its flag is true and its own sub-query's result is not
\* empty.
C3_EveryFlagCombinationReports ==
    ConditionsOk
    => /\ IsCurrentReport(ret)
       /\ TaskKinds = current_tasks(call)
       /\ HasSection(ret, "Weather alerts:")
            <=> (call.include_warning /\ NonEmptyResult("warning"))
       /\ HasSection(ret, "Air quality:")
            <=> (call.include_air_quality /\ NonEmptyResult("air"))
       /\ HasSection(ret, "Indices today:")
            <=> (call.include_indices /\ NonEmptyResult("indices1d"))

\* the resolution and the mandatory forecast fetch of get_weather_forecast
\* succeeded with a non-empty daily list, and the call has returned
ForecastOk ==
    /\ pc = "done"
    /\ program = "weather_mcp"
    /\ call.tool = "get_weather_forecast"
    /\ Len(tasks) > 0
    /\ ~tasks[1].exc
    /\ tasks[1].val.hasDaily
    /\ Len(tasks[1].val.daily) > 0

\* a rendered day has an air-quality entry of the air-quality sub-query's result
AirDayAvailable ==
    \E i \in 1..Len(tasks) :
        /\ tasks[i].kind = "airdaily"
        /\ \E k \in 1..Len(tasks[i].val) :
             /\ k <= days
             /\ k <= Len(tasks[1].val.daily)
             /\ Len(tasks[i].val[k].indexes) > 0

\* C4: for each of the 4 combinations of include_air_quality and include_indices,
\* when the resolution and the forecast fetch succeed with a non-empty daily list,
\* get_weather_forecast returns the forecast report, with air-quality lines and
\* the life-index section taken from their own sub-query and present only when
\* their flag is true.
C4_EveryForecastCombinationReports ==
    ForecastOk
    => /\ IsForecastReport(ret)
       /\ TaskKinds = forecast_tasks(call)
       /\ HasLineStarting(ret, "Air quality: ")
            <=> (call.include_air_quality /\ AirDayAvailable)
       /\ HasSection(ret, "Life indices of the next 3 days:")
            <=> (call.include_indices /\ NonEmptyResult("indices3d"))

\* C5: a get_token call made while a token is cached and now < expiry - 300
\* returns the cached token and signs nothing and changes nothing; any other call
\* signs exactly once and sets the expiry to now + 82800, and the token it then
\* returns is the cached one, issued at now - 30 and expiring at the new expiry.
C5_TokenReuseAndRefresh ==
    [][calls' = calls + 1 =>
        IF ~token.none /\ now < expiry - 300
        THEN /\ token' = token
             /\ expiry' = expiry
             /\ signings' = signings
             /\ returned' = [raised |-> FALSE, result |-> token]
        ELSE /\ signings' = signings + 1
             /\ expiry' = now + 82800
             /\ ~returned'.raised =>
                    /\ returned'.result.iat = now - 30
                    /\ returned'.result.exp = now + 82800
                    /\ ~returned'.result.none
                    /\ token' = returned'.result]_vars

\* a token was signed, reused one second before the refresh boundary, and signed
\* again on the boundary
C5_Witness ==
    /\ calls = 3
    /\ signings = 2
    /\ ticks = 2
    /\ now \in {82600, 83500}
    /\ ~returned.raised
    /\ returned.result = token
    /\ token.exp = now + 82800

\* C6: the cached expiry is always the expiry of the generation that produced the
\* cached token, and a token that get_token returns is paired with its own expiry.
C6_CachedPairConsistent ==
    /\ ~token.none => expiry = token.exp
    /\ (~returned.raised /\ ~returned.result.none) => returned.result.exp = expiry

NoLookupRequested ==
    \A k \in 1..Len(requests) : requests[k].ep # "/geo/v2/city/lookup"

\* C7 as stated: for every location made of decimal digits only, the resolver of
\* either module requests no city lookup and returns the input as identifier and
\* display name.
C7_NumericSkipsLookup ==
    (pc # "idle" /\ isdigit(call.location))
    => /\ NoLookupRequested
       /\ pc \in {"fetching", "gathering"}
            => city.id = call.location /\ city.name = call.location

\* C7 as amended: the resolver of weather_server (_get_location_id) requests no
\* city lookup for a non-empty all-digit location and returns it unchanged as
\* identifier and display name; the resolver of weather_mcp (_get_city_info)
\* requests the city lookup for every location, all-digit or not.
C7_ServerNumericSkipsLookup ==
    /\ (program = "weather_server" /\ pc # "idle" /\ isdigit(call.location))
       => /\ NoLookupRequested
          /\ city.id = call.location
          /\ city.name = call.location
    /\ (program = "weather_mcp" /\ pc \in {"resolving", "gathering"})
       => /\ Len(requests) >= 1
          /\ requests[1].ep = "/geo/v2/city/lookup"
          /\ requests[1].a = call.location

C7_Witness ==
    /\ program = "weather_server"
    /\ pc = "fetching"
    /\ isdigit(call.location)
    /\ Len(requests) = 1
    /\ requests[1].a = call.location

\* the city lookup answered with a success envelope and no match
ZeroMatches ==
    /\ lookup.received
    /\ lookup.resp.kind = "json"
    /\ lookup.resp.body.code = "200"
    /\ ~lookup.resp.body.hasLocation \/ Len(lookup.resp.body.location) = 0

\* C8: when the city lookup returns zero matches (no location list or an empty
\* one), the resolution fails with the not-found error: the tool returns the
\* failure text naming that error and the location, and requests nothing else.
C8_ZeroMatchesIsNotFound ==
    (pc # "idle" /\ ZeroMatches)
    => /\ pc = "done"
       /\ ret = [kind |-> "text",
                 text |-> << <<FailurePrefix(call.tool), "city not found: ">>
                             \o call.location >>]
       /\ Len(requests) = 1
       /\ Len(tasks) = 0

C8_Witness ==
    /\ pc = "done"
    /\ ZeroMatches
    /\ lookup.resp.body.hasLocation
    /\ Len(call.location) > 0
    /\ ~isdigit(call.location)
    /\ IsFailureText(ret)

ExpectedDays == IF call.days \in {3, 7, 10, 15, 30} THEN call.days ELSE 7

\* C9: get_weather_forecast uses days unchanged when it is 3, 7, 10, 15 or 30 and
\* 7 otherwise: the forecast endpoint requested, the header of the report and the
\* cap on the rendered entries are those of that value, and a call of
\* weather_mcp with any other days returns what the call with days = 7 returns.
C9_DaysCoercedToSeven ==
    (pc # "idle" /\ call.tool = "get_weather_forecast")
    => /\ days = ExpectedDays
       /\ \A k \in 1..Len(requests) :
            requests[k].ep = "/v7/weather/{days}d" => requests[k].d = ExpectedDays
       /\ (pc = "done" /\ IsForecastReport(ret))
            => /\ ret.text[1] = city.name
                      \o <<" forecast, next ", ToString(ExpectedDays), " days:">>
               /\ RenderedDays(ret) <= ExpectedDays
       /\ (pc = "done" /\ program = "weather_mcp" /\ Len(tasks) > 0)
            => ret = tool_boundary(
                        forecast_report([call EXCEPT !.days = ExpectedDays],
                                        ExpectedDays, city, tasks), call.tool)

C9_Witness ==
    /\ pc = "done"
    /\ call.tool = "get_weather_forecast"
    /\ call.days = 8
    /\ IsForecastReport(ret)
    /\ RenderedDays(ret) = 7

\* the mandatory configuration of the module is incomplete or invalid
KeyUnusable ==
    \/ env.PRIVATE_KEY = "garbage"
    \/ /\ env.PRIVATE_KEY = ""
       /\ env.PRIVATE_KEY_PATH \in {"", "/missing.pem", "/unreadable.pem", "/garbage.pem"}
ConfigIncomplete ==
    IF program = "weather_mcp"
    THEN \/ env.PROJECT_ID = ""
         \/ env.KEY_ID = ""
         \/ KeyUnusable
         \/ env.API_HOST = ""
    ELSE env.API_KEY = ""

\* C10: with incomplete mandatory configuration main writes a diagnostic to the
\* error stream and exits non-zero, and the server is never started.
C10_StartupFailsFast ==
    proc # "imported"
    => /\ ConfigIncomplete => proc = "exited" /\ exitCode # 0 /\ Len(stderr) > 0
       /\ proc = "serving" => ~ConfigIncomplete

C10_Witness ==
    /\ program = "weather_mcp"
    /\ env = Env("proj", "kid", "", "/key.pem", "", "")
    /\ proc = "exited"
    /\ exitCode = 1

\* the mandatory sub-query of the finished call of weather_mcp failed
MandatoryFailed ==
    /\ pc = "done"
    /\ program = "weather_mcp"
    /\ Len(tasks) > 0
    /\ tasks[1].kind \in {"now", "daily"}
    /\ tasks[1].exc

\* C11: when the mandatory sub-query (the current conditions of
\* get_current_weather, the N-day forecast of get_weather_forecast) fails, the
\* tool returns the one-line failure text that embeds the error of that
\* sub-query, whatever the optional sub-queries returned, and no partial report.
C11_MandatoryFailureIsFailureText ==
    MandatoryFailed
    => /\ ret = [kind |-> "text",
                 text |-> << <<FailurePrefix(call.tool)>> \o tasks[1].msg >>]
       /\ IsFailureText(ret)
       /\ ~IsCurrentReport(ret)
       /\ ~IsForecastReport(ret)

\* the conditions fetch failed while every optional sub-query returned data
C11_Witness ==
    /\ MandatoryFailed
    /\ call.tool = "get_current_weather"
    /\ Len(tasks) = 4
    /\ \A i \in 2..4 : ~tasks[i].logged /\ Len(tasks[i].val) > 0
    /\ tasks[1].msg = MsgTimeout

\* task i is the alert sub-query and its response says metadata.zeroResult
ZeroResultAlerts(i) ==
    /\ tasks[i].kind = "warning"
    /\ tasks[i].state = "done"
    /\ tasks[i].resp.kind = "json"
    /\ tasks[i].resp.body.zeroResult

\* C12: when the envelope of the alerts response has metadata.zeroResult true,
\* the alert sub-query returns the empty list without raising or logging an
\* error, whatever alerts the envelope carries, and what the tool returns has no
\* alerts section.
C12_ZeroResultIsEmptyAlerts ==
    \A i \in 1..Len(tasks) :
        ZeroResultAlerts(i)
        => /\ tasks[i].val = <<>>
           /\ ~tasks[i].exc
           /\ ~tasks[i].logged
           /\ pc = "done" => ~HasSection(ret, "Weather alerts:")

\* a zeroResult envelope that carries alerts all the same, in a rendered report
C12_Witness ==
    /\ pc = "done"
    /\ IsCurrentReport(ret)
    /\ Len(tasks) = 4
    /\ ZeroResultAlerts(2)
    /\ Len(tasks[2].resp.body.alerts) > 0

\* C13: gather barrier.  A tool call of weather_mcp has returned its report or
\* its failure text only when every sub-query it launched has ended, and a
\* sub-query in flight stays in flight, untouched, until its own response ends
\* it: the failure of a sibling, optional or mandatory, never cancels it.
C13_GatherBarrier ==
    /\ [](pc = "done" => \A i \in 1..Len(tasks) : tasks[i].state = "done")
    /\ [][\A i \in 1..Len(tasks) :
            tasks[i].state = "awaiting"
            => /\ Len(tasks') = Len(tasks)
               /\ pc' = "gathering"
               /\ ret' = NoReturn
               /\ \/ tasks'[i] = tasks[i]
                  \/ /\ tasks'[i].resp \in Responses(tasks[i].kind)
                     /\ tasks'[i] = finish_task(tasks[i], tasks'[i].resp)]_vars

\* the mandatory sub-query has failed on its response and an optional sibling
\* has been swallowed while another sibling is still in flight
C13_Witness ==
    /\ pc = "gathering"
    /\ Len(tasks) = 4
    /\ tasks[1].exc
    /\ tasks[1].resp.kind = "timeout"
    /\ tasks[2].logged
    /\ tasks[3].state = "awaiting"
    /\ tasks[4].state = "done"

\* the endpoints requested by this invocation, in order
Endpoints == [k \in 1..Len(requests) |-> requests[k].ep]

\* C14: no automatic retry.  Within one tool invocation no upstream endpoint is
\* requested twice, so there is at most one request for the city lookup and one
\* for each sub-query; a response, whatever it is, ends its sub-query; a failed
\* optional sub-query is swallowed and a failed mandatory one is surfaced once, as
\* the single line the tool returns.
C14_NoRetry ==
    /\ \A j, k \in 1..Len(requests) : j # k => Endpoints[j] # Endpoints[k]
    /\ Len(requests) <= 1 + (IF program = "weather_mcp" THEN Len(tasks) ELSE 1)
    /\ \A i \in 1..Len(tasks) :
         /\ tasks[i].resp # NoResponse => tasks[i].state = "done"
         /\ (tasks[i].resp.kind \notin {"none", "json"} /\ i > 1)
              => tasks[i].logged /\ ~tasks[i].exc
    /\ MandatoryFailed => Len(ret.text) = 1

\* the lookup succeeded, the conditions request was rejected, the alert request
\* timed out and the other two succeeded: five requests in all
C14_Witness ==
    /\ pc = "done"
    /\ Len(tasks) = 4
    /\ Len(requests) = 5
    /\ tasks[1].resp.kind = "json"
    /\ tasks[1].resp.body.code = "401"
    /\ tasks[2].resp.kind = "timeout"
    /\ tasks[3].resp.kind = "json"
    /\ tasks[4].resp.kind = "json"
    /\ IsFailureText(ret)

\* the sub-queries that address the provider by coordinates
CoordinateKinds == {"warning", "air", "airdaily"}
CoordinateEndpoints ==
    {"/weatheralert/v1/current", "/airquality/v1/current", "/airquality/v1/daily"}

\* C15: when the resolved latitude or longitude is empty, the alert, the current
\* air-quality and the air-quality-forecast sub-queries return their empty value
\* at once, without raising or logging, without asking for a token and without
\* an HTTP request: the only tokens obtained and requests issued are those of
\* the city lookup and of the sub-queries addressed by location id.
C15_EmptyCoordinatesNoRequest ==
    (program = "weather_mcp" /\ pc \in {"gathering", "done"} /\ Len(tasks) > 0
        /\ (Len(city.lat) = 0 \/ Len(city.lon) = 0))
    => /\ \A i \in 1..Len(tasks) :
            tasks[i].kind \in CoordinateKinds
            => tasks[i] = Done(tasks[i].kind, <<>>)
       /\ \A k \in 1..Len(requests) : requests[k].ep \notin CoordinateEndpoints
       /\ tokenCalls =
            1 + Cardinality({i \in 1..Len(tasks) : tasks[i].kind \notin CoordinateKinds})

\* a city without longitude: the report is rendered from the conditions and the
\* indices, the alert and air-quality sub-queries having returned empty at once
C15_Witness ==
    /\ pc = "done"
    /\ call.tool = "get_current_weather"
    /\ Len(city.lon) = 0
    /\ Len(city.lat) > 0
    /\ Len(tasks) = 4
    /\ tasks[2].resp = NoResponse
    /\ tasks[3].resp = NoResponse
    /\ tokenCalls = 3
    /\ IsCurrentReport(ret)

\* the message the envelope code selects, as the claim lists them
SelectedMessage(code) ==
    IF code = "401"
    THEN IF program = "weather_mcp" THEN <<"JWT token invalid or expired">>
                                    ELSE <<"API key invalid or expired">>
    ELSE IF code = "402" THEN <<"API quota exhausted">>
    ELSE IF code = "404" THEN <<"resource does not exist">>
    ELSE <<"API error: status code ", code>>

\* resp is a JSON body whose envelope code is not the success code
Rejected(resp) == resp.kind = "json" /\ resp.body.code # "200"
Accepted(resp) == resp.kind = "json" /\ resp.body.code = "200"

\* C16: envelope decoding.  A response whose envelope code is not "200" makes the
\* request fail with the message selected by the code (401: credential invalid
\* or expired, 402: quota exhausted, 404: resource does not exist, any other
\* code: the generic message holding the code), carried inside the request-failed
\* wrapper; a response with code "200" is returned unchanged to the caller.
C16_EnvelopeDecoding ==
    /\ (lookup.received /\ Rejected(lookup.resp))
       => /\ pc = "done"
          /\ ret.text = << <<FailurePrefix(call.tool), "request failed: ">>
                           \o SelectedMessage(lookup.resp.body.code) >>
    /\ (lookup.received /\ Accepted(lookup.resp) /\ ~ZeroMatches)
       => city.id = lookup.resp.body.location[1].id
    /\ \A i \in 1..Len(tasks) :
         tasks[i].kind \in {"now", "daily"}
         => /\ Rejected(tasks[i].resp)
               => /\ tasks[i].exc
                  /\ tasks[i].msg = <<"request failed: ">>
                                     \o SelectedMessage(tasks[i].resp.body.code)
            /\ Accepted(tasks[i].resp)
               => ~tasks[i].exc /\ tasks[i].val = tasks[i].resp.body

\* the conditions request was answered with the quota code and the tool gave the
\* failure text with the quota message
C16_Witness ==
    /\ pc = "done"
    /\ Len(tasks) > 0
    /\ Rejected(tasks[1].resp)
    /\ tasks[1].resp.body.code = "402"
    /\ ret.text = << <<MsgCurrentFailed, "request failed: ", "API quota exhausted">> >>

\* the heading line of a forecast entry, and where the k-th one stands in r
IsHeading(line) == Len(line) >= 2 /\ line[2] = ". "
HeadingAt(r, k) ==
    CHOOSE p \in 1..Len(r.text) :
        /\ IsHeading(r.text[p])
        /\ Cardinality({q \in 1..p : IsHeading(r.text[q])}) = k
\* the lines of the k-th rendered entry: from its heading to the empty line
DayBlock(r, k) ==
    LET p == HeadingAt(r, k)
        e == CHOOSE q \in p..Len(r.text) :
                 /\ r.text[q] = Empty
                 /\ \A x \in p..(q - 1) : r.text[x] # Empty
    IN SubSeq(r.text, p, e)
AirLinesOf(block) ==
    SelectSeq(block, LAMBDA l : FirstSymbol(l) = "Air quality: ")
\* what the air-quality-forecast response of this call holds
ReturnedAirDays ==
    IF \E i \in 1..Len(tasks) : tasks[i].kind = "airdaily" /\ tasks[i].resp.kind = "json"
    THEN tasks[CHOOSE i \in 1..Len(tasks) : tasks[i].kind = "airdaily"].resp.body.days
    ELSE <<>>
Min(a, b) == IF a < b THEN a ELSE b

\* C17: the forecast report renders the first min(days, received) entries in the
\* order received, numbered from 1; the i-th rendered entry has an air-quality
\* line only if air quality is enabled and i is within the air-quality days
\* returned, and the line is then built from the i-th air-quality day; entries
\* beyond the returned air-quality days have no such line and raise no error.
C17_ForecastCapAndAirByPosition ==
    (ForecastOk /\ IsForecastReport(ret))
    => LET daily == tasks[1].val.daily
           n == Min(days, Len(daily))
       IN /\ RenderedDays(ret) = n
          /\ \A k \in 1..n :
               LET block == DayBlock(ret, k)
                   air == AirLinesOf(block)
                   aq == ReturnedAirDays
               IN /\ block[1][1] = ToString(k)
                  /\ SubSeq(block[1], 3, 3) = daily[k].fxDate
                  /\ Len(air) <= 1
                  /\ Len(air) = 1
                       => /\ call.include_air_quality
                          /\ k <= Len(aq)
                          /\ Len(aq[k].indexes) > 0
                          /\ air[1] = <<"Air quality: ">>
                                       \o aq[k].indexes[1].aqiDisplay
                                       \o <<" (">> \o aq[k].indexes[1].category
                                       \o <<")">>
                  /\ (call.include_air_quality /\ k <= Len(aq)
                        /\ Len(aq[k].indexes) > 0)
                       => Len(air) = 1

\* seven of eight received entries rendered, the first and third with the line
\* of their own air-quality day, the fourth and later ones with none
C17_Witness ==
    /\ ForecastOk
    /\ IsForecastReport(ret)
    /\ days = 7
    /\ Len(tasks[1].val.daily) = MaxDaily
    /\ RenderedDays(ret) = 7
    /\ Len(ReturnedAirDays) = MaxAqDays
    /\ Len(AirLinesOf(DayBlock(ret, 3))) = 1
    /\ Len(AirLinesOf(DayBlock(ret, 4))) = 0

\* int(s) and float(s) succeed
ParsesAsInt(s) == isdigit(s)
ParsesAsNumber(s) == s \in NumberText
HasLine(block, tag) == \E x \in 1..Len(block) : FirstSymbol(block[x]) = tag

\* the forecast fetch of weather_mcp succeeded with entries, and the optional
\* results stand where the tool reads them
ForecastReadable ==
    /\ ForecastOk
    /\ call.include_indices => call.include_air_quality

\* C18: when the UV index or the precipitation of a forecast entry is the empty
\* string or text that is no number, the value is handled as absent: the forecast
\* report is rendered all the same, without the line of that value for that
\* entry, and is never replaced by a failure message.
C18_UnparsableHandledAsAbsent ==
    ForecastReadable
    => /\ ~IsFailureText(ret)
       /\ IsForecastReport(ret)
       /\ \A k \in 1..Min(days, Len(tasks[1].val.daily)) :
            LET day == tasks[1].val.daily[k]
                block == DayBlock(ret, k)
            IN /\ ~ParsesAsInt(day.uvIndex) => ~HasLine(block, "UV: ")
               /\ ~ParsesAsNumber(day.precip) => ~HasLine(block, "Precipitation: ")

\* the alerts the provider returned to this call, in the order received
ReceivedAlerts ==
    IF \E i \in 1..Len(tasks) :
          /\ tasks[i].kind = "warning"
          /\ tasks[i].resp.kind = "json"
          /\ ~tasks[i].resp.body.zeroResult
    THEN tasks[CHOOSE i \in 1..Len(tasks) : tasks[i].kind = "warning"].resp.body.alerts
    ELSE <<>>

\* C19: the alerts section of the current-weather report lists the first
\* min(3, received) alerts of the response in the order received, numbered from
\* 1 whatever their severity, and each description line shows the first 100
\* characters of the description at most, followed by the ellipsis.
C19_AlertsCappedInOrder ==
    (pc = "done" /\ IsCurrentReport(ret) /\ HasSection(ret, "Weather alerts:"))
    => LET n == Min(3, Len(ReceivedAlerts)) IN
       /\ n > 0
       /\ RenderedDays(ret) = n
       /\ \A k \in 1..n :
            LET p == HeadingAt(ret, k)
                a == ReceivedAlerts[k]
                d == ret.text[p + 3]
            IN /\ ret.text[p] = <<ToString(k), ". ">> \o a.headline
               /\ ret.text[p + 2] = <<"Severity: ">> \o a.severity
               /\ d[1] = "Description: "
               /\ d[Len(d)] = "..."
               /\ Len(d) - 2 = Min(DESC_LIMIT, Len(a.description))
               /\ SubSeq(d, 2, Len(d) - 1) = SubSeq(a.description, 1, Len(d) - 2)

\* more than three alerts received, the first with a description over the limit:
\* three are listed, the first one cut at 100 characters
C19_Witness ==
    /\ pc = "done"
    /\ IsCurrentReport(ret)
    /\ Len(ReceivedAlerts) > 3
    /\ Len(ReceivedAlerts[1].description) > DESC_LIMIT
    /\ RenderedDays(ret) = 3
    /\ Len(ret.text[HeadingAt(ret, 1) + 3]) = DESC_LIMIT + 2

\* the static API key of weather_server is configured
StaticKeyConfigured ==
    /\ program = "weather_server"
    /\ env.API_KEY # ""
    /\ env.API_KEY # "your_api_key_here"

\* C20: in static-key mode with the API key configured, main starts the tool
\* server: once main has run, mcp.run() has been entered, and main has neither
\* returned nor exited without serving.
C20_StaticKeyMainServes ==
    (StaticKeyConfigured /\ proc # "imported") => proc = "serving"

\* the city lookup of this invocation has answered and the resolution succeeded
ResolutionSucceeded ==
    /\ lookup.received
    /\ Accepted(lookup.resp)
    /\ ~ZeroMatches
\* this invocation resolves its location by the city lookup: every call of
\* weather_mcp, and the calls of weather_server whose location is not all digits
ResolvesByLookup ==
    pc # "idle" /\ (program = "weather_mcp" \/ ~isdigit(call.location))

\* C21: resolution precedes fan-out.  In get_current_weather and
\* get_weather_forecast every conditions, forecast, alert, air-quality or index
\* request is issued after the city lookup, which is the first request, has
\* completed successfully; when the resolution fails the invocation has issued no
\* other request, has launched no sub-query and returns the failure text; and the
\* shared HTTP client is initialized whenever sub-queries have been launched, so
\* whenever an alert or air-quality sub-query uses it directly.
C21_ResolutionPrecedesFanOut ==
    ResolvesByLookup
    => /\ \A k \in 1..Len(requests) :
            requests[k].ep # "/geo/v2/city/lookup"
            => /\ k > 1
               /\ requests[1].ep = "/geo/v2/city/lookup"
               /\ ResolutionSucceeded
       /\ Len(tasks) > 0 => ResolutionSucceeded /\ client
       /\ (pc \in {"fetching", "gathering"}) => ResolutionSucceeded
       /\ (pc = "done" /\ ~ResolutionSucceeded)
            => /\ Len(requests) <= 1
               /\ Len(tasks) = 0
               /\ IsFailureText(ret)
       /\ \A k \in 1..Len(requests) :
            requests[k].ep \in CoordinateEndpoints => client

\* after a successful lookup the alert and air-quality sub-queries are in flight
\* on the shared client, their requests issued behind the lookup
C21_Witness ==
    /\ pc = "gathering"
    /\ program = "weather_mcp"
    /\ ResolutionSucceeded
    /\ client
    /\ Len(requests) = 5
    /\ requests[1].ep = "/geo/v2/city/lookup"
    /\ requests[3].ep = "/weatheralert/v1/current"
    /\ requests[4].ep = "/airquality/v1/current"
    /\ tasks[2].state = "awaiting"
    /\ tasks[3].state = "awaiting"

====
